---- MODULE Spec2Model ----
(***************************************************************************)
(* Model of the error-handling part of rustic.hpp (ENABLE_RS_ERROR):       *)
(* Unit, Option<T>, Result<T,E>, the OkValue/ErrValue builders, the free   *)
(* factories Some/None/Ok/Err, match, and rs_panic/panic.                  *)
(*                                                                         *)
(* A std::variant is modelled as a record [index, val]: index is the       *)
(* active alternative, val the payload stored in it.  T and E are both     *)
(* modelled by small integer ranges that overlap on purpose, so that a     *)
(* payload value never identifies the alternative it is stored in.         *)
(*                                                                         *)
(* The program is one thread that owns one Option<T> (opt), one            *)
(* Result<T,E> (res["r"]) and one Result<Unit,E> (res["u"]) and calls the  *)
(* library's operations on them in any order.  rs_panic is modelled in two *)
(* steps (the write to std::cerr, then std::abort) so that the order of    *)
(* the two is visible.                                                     *)
(*                                                                         *)
(* The backquote character of the library's panic messages cannot be       *)
(* written inside a TLA+ string; it is written as an apostrophe.           *)
(***************************************************************************)
EXTENDS Integers, Sequences, FiniteSets, TLC

\* ---------------------------------------------------------------- bounds
MaxT == 2
MaxE == 2
MaxK == 1

TVals == 0..MaxT          \* values of the success / option payload type T
EVals == 1..MaxE          \* values of the failure payload type E (overlaps T)

\* ------------------------------------------------------------------ Unit
\* struct Unit {}: a type with a single value.
UnitValue == 0
UnitVals == {UnitValue}
Unit_eq(a, b) == TRUE
Unit_ne(a, b) == FALSE

\* std::monostate, the payload of an empty Option's variant.
Monostate == 0

\* ------------------------------------------------- outcomes of an operation
NoRet == [kind |-> "none", b |-> FALSE, v |-> 0]
RetBool(x) == [kind |-> "bool", b |-> x, v |-> 0]
RetVal(x) == [kind |-> "val", b |-> FALSE, v |-> x]

\* An accessor either returns a payload or calls rs_panic(msg).
Returns(x) == [panic |-> FALSE, msg |-> "", v |-> x]
Panics(m) == [panic |-> TRUE, msg |-> m, v |-> 0]

\* ---------------------------------------------------------------- Option
\* std::variant<std::monostate, T>: index 0 holds monostate, index 1 holds T.
Option_default == [index |-> 0, val |-> Monostate]
Option_from_monostate(m) == [index |-> 0, val |-> Monostate]
Option_from_value(v) == [index |-> 1, val |-> v]

Option_Some(v) == Option_from_value(v)
Option_None == Option_default

Option_is_some(o) == o.index = 1
\* is_none testing for the wrong alternative
Option_is_none_mut(o) == o.index = 1
Option_is_none(o) == o.index = 0
Option_bool(o) == Option_is_some(o)

\* unwrap with its test inverted
Option_unwrap_inverted(o) ==
    IF Option_is_some(o)
    THEN Panics("called 'Option::unwrap()' on a 'None' value")
    ELSE Returns(o.val)

\* unwrap panicking with the message of Result::unwrap
Option_unwrap_wrong_msg(o) ==
    IF Option_is_none(o)
    THEN Panics("called 'Result::unwrap()' on an 'Err' value")
    ELSE Returns(o.val)

Option_unwrap(o) ==
    IF Option_is_none(o)
    THEN Panics("called 'Option::unwrap()' on a 'None' value")
    ELSE Returns(o.val)

Option_expect(o, msg) ==
    IF Option_is_none(o) THEN Panics(msg) ELSE Returns(o.val)

\* unwrap_or with its test inverted
Option_unwrap_or_inverted(o, def) == IF Option_is_none(o) THEN o.val ELSE def
Option_unwrap_or(o, def) == IF Option_is_some(o) THEN o.val ELSE def

Option_arrow(o) == Option_unwrap(o)
Option_deref(o) == Option_unwrap(o)

\* free factories
Some(v) == Option_from_value(v)
None == Monostate

\* ----------------------------------------------------- builders and Result
\* struct OkValue<T> { T value; };  struct ErrValue<E> { E error; };
OkValue(v) == [value |-> v]
ErrValue(e) == [error |-> e]

Ok(v) == OkValue(v)
Ok_unit == OkValue(UnitValue)
Err(e) == ErrValue(e)

\* std::variant<T, E>: index 0 holds T, index 1 holds E.
Result_from_T(v) == [index |-> 0, val |-> v]
Result_from_E(e) == [index |-> 1, val |-> e]
Result_from_OkValue(ok) == [index |-> 0, val |-> ok.value]
\* the ErrValue conversion constructing alternative 0
Result_from_ErrValue_index0(err) == [index |-> 0, val |-> err.error]
Result_from_ErrValue(err) == [index |-> 1, val |-> err.error]

Result_is_ok(r) == r.index = 0
Result_is_err(r) == r.index = 1
\* operator bool answering is_err
Result_bool_is_err(r) == Result_is_err(r)
Result_bool(r) == Result_is_ok(r)

Result_unwrap(r) ==
    IF Result_is_err(r)
    THEN Panics("called 'Result::unwrap()' on an 'Err' value")
    ELSE Returns(r.val)

Result_expect(r, msg) ==
    IF Result_is_err(r) THEN Panics(msg) ELSE Returns(r.val)

\* unwrap_err testing is_err instead of is_ok
Result_unwrap_err_inverted(r) ==
    IF Result_is_err(r)
    THEN Panics("called 'Result::unwrap_err()' on an 'Ok' value")
    ELSE Returns(r.val)

Result_unwrap_err(r) ==
    IF Result_is_ok(r)
    THEN Panics("called 'Result::unwrap_err()' on an 'Ok' value")
    ELSE Returns(r.val)

Result_arrow(r) == Result_unwrap(r)
Result_deref(r) == Result_unwrap(r)

\* ----------------------------------------------------------------- match
\* A branch is a callable supplied by the caller.  unary / nullary say with
\* which argument lists it is invocable (Case(x) is unary, DefaultCase() is
\* nullary, a variadic lambda is both); k selects what it computes.
Callables == [unary : BOOLEAN, nullary : BOOLEAN, k : 0..MaxK]
NoCallable == [unary |-> FALSE, nullary |-> FALSE, k |-> 0]

\* The branches the program passes.  Only Option::match's first branch is
\* inspected with is_invocable, so only there is a variadic lambda passed as
\* well; the other slots get Case(x) (unary) or DefaultCase() (nullary).
CaseBranches == {f \in Callables : f.unary /\ ~f.nullary}
DefaultCaseBranches == {f \in Callables : f.nullary /\ ~f.unary}
SomeBranches == {f \in Callables : f.unary \/ f.nullary}

\* The value the callable f returns for the argument list args.
Apply(f, args) ==
    IF args = <<>> THEN 100 * (f.k + 1) ELSE 10 * (f.k + 1) + args[1]

\* One invocation of the branch passed in parameter slot `slot`.
Invoke(slot, f, args) ==
    [ret |-> Apply(f, args), calls |-> << [slot |-> slot, args |-> args] >>]

\* match dropping the value of the f_none branch
Option_match_drops_none(o, f_some, f_none) ==
    IF Option_is_some(o)
    THEN IF f_some.unary
         THEN Invoke("f_some", f_some, <<o.val>>)
         ELSE Invoke("f_some", f_some, <<>>)
    ELSE [ret |-> 0, calls |-> Invoke("f_none", f_none, <<>>).calls]

Option_match(o, f_some, f_none) ==
    IF Option_is_some(o)
    THEN IF f_some.unary
         THEN Invoke("f_some", f_some, <<o.val>>)
         ELSE Invoke("f_some", f_some, <<>>)
    ELSE Invoke("f_none", f_none, <<>>)

\* match with the branches exchanged
Result_match_swapped(r, f_ok, f_err) ==
    IF Result_is_ok(r)
    THEN Invoke("f_err", f_err, <<r.val>>)
    ELSE Invoke("f_ok", f_ok, <<r.val>>)

Result_match(r, f_ok, f_err) ==
    IF Result_is_ok(r)
    THEN Invoke("f_ok", f_ok, <<r.val>>)
    ELSE Invoke("f_err", f_err, <<r.val>>)

\* ----------------------------------------------------------- sample.cpp
users == <<"alice", "bob", "carol">>
Targets == {"alice", "bob", "carol", "dave"}

\* for (usize i = 0; i < names.size(); ++i) if (names[i] == target) return Some(i);
\* return None();
RECURSIVE find_user_from(_, _, _)
find_user_from(names, target, i) ==
    IF i < Len(names)
    THEN IF names[i + 1] = target
         THEN Some(i)
         ELSE find_user_from(names, target, i + 1)
    ELSE Option_from_monostate(None)

find_user(names, target) == find_user_from(names, target, 0)

\* ------------------------------------------------------------------ state
VARIABLES
    opt,          \* the program's Option<T>
    res,          \* the program's Results: "r" is Result<T,E>, "u" is Result<Unit,E>
    pc,           \* "run", "rs_panic" (entered, nothing written), "abort" (message written), "terminated"
    panicMsg,     \* the argument of the rs_panic call in progress
    stderr,       \* what has been written to std::cerr, one element per line
    ret,          \* what the last operation returned to its caller
    calls,        \* the branch invocations made by the last operation
    lastOp,       \* the last operation called and its arguments
    optOrigin,    \* what opt was last constructed from: Some(arg) or None
    resOrigin,    \* what each Result was last constructed from: Ok(arg) or Err(arg)
    optKnown,     \* what the program's last state query on opt told it
    resKnown      \* what the program's last state query on each Result told it

vars == <<opt, res, pc, panicMsg, stderr, ret, calls, lastOp,
          optOrigin, resOrigin, optKnown, resKnown>>

ResultNames == {"r", "u"}
TOf(c) == IF c = "u" THEN UnitVals ELSE TVals

ExpectMsgs == {"custom message"}
PanicMsgs == {"explicit panic"}

OptionQueries == {"is_some", "is_none", "operator bool"}
OptionAccessors == {"unwrap", "unwrap const", "expect", "operator*",
                    "operator* const", "operator->", "operator-> const"}
ResultQueries == {"is_ok", "is_err", "operator bool"}
ResultAccessors == {"unwrap", "unwrap const", "expect", "unwrap_err", "operator*",
                    "operator* const", "operator->", "operator-> const"}

Op(name, tgt, arg, msg, f1, f2) ==
    [op |-> name, tgt |-> tgt, arg |-> arg, msg |-> msg, f1 |-> f1, f2 |-> f2]
Origin(via, arg) == [via |-> via, arg |-> arg]

Init ==
    /\ opt = Option_default
    /\ res = [c \in ResultNames |->
                IF c = "u" THEN Result_from_OkValue(Ok_unit) ELSE Result_from_OkValue(Ok(0))]
    /\ pc = "run"
    /\ panicMsg = ""
    /\ stderr = <<>>
    /\ ret = NoRet
    /\ calls = <<>>
    /\ lastOp = Op("init", "-", 0, "", NoCallable, NoCallable)
    /\ optOrigin = Origin("None", 0)
    /\ resOrigin = [c \in ResultNames |-> Origin("Ok", IF c = "u" THEN UnitValue ELSE 0)]
    /\ optKnown = "unknown"
    /\ resKnown = [c \in ResultNames |-> "unknown"]

\* ------------------------------------------------------------ panic steps
\* rs_panic going on to std::abort without having written the message
rs_panic_write_skipped ==
    /\ pc = "rs_panic"
    /\ pc' = "abort"
    /\ UNCHANGED <<opt, res, panicMsg, stderr, ret, calls, lastOp, optOrigin, resOrigin,
                   optKnown, resKnown>>

\* std::cerr << "[Panic] " << msg << std::endl;
rs_panic_write ==
    /\ pc = "rs_panic"
    /\ stderr' = Append(stderr, "[Panic] " \o panicMsg)
    /\ pc' = "abort"
    /\ UNCHANGED <<opt, res, panicMsg, ret, calls, lastOp, optOrigin, resOrigin,
                   optKnown, resKnown>>

\* std::abort();
rs_panic_abort ==
    /\ pc = "abort"
    /\ pc' = "terminated"
    /\ UNCHANGED <<opt, res, panicMsg, stderr, ret, calls, lastOp, optOrigin, resOrigin,
                   optKnown, resKnown>>

\* inline void panic(const std::string& msg) { rs_panic(msg); }
panic(msg) ==
    /\ pc = "run"
    /\ lastOp' = Op("panic", "-", 0, msg, NoCallable, NoCallable)
    /\ pc' = "rs_panic"
    /\ panicMsg' = msg
    /\ ret' = NoRet
    /\ calls' = <<>>
    /\ UNCHANGED <<opt, res, stderr, optOrigin, resOrigin, optKnown, resKnown>>

\* The caller's side of a panicking accessor whose outcome is out: either the
\* payload comes back, or rs_panic has been entered and nothing comes back.
Complete(out) ==
    /\ calls' = <<>>
    /\ IF out.panic
       THEN /\ pc' = "rs_panic"
            /\ panicMsg' = out.msg
            /\ ret' = NoRet
       ELSE /\ pc' = pc
            /\ panicMsg' = panicMsg
            /\ ret' = RetVal(out.v)

\* --------------------------------------------------- operations on Option
\* opt = Some(v);  opt = Option<T>::Some(v);  opt = Option<T>(v);
Option_assign_some(v, how) ==
    /\ pc = "run"
    /\ opt' = CASE how = "Some" -> Some(v)
                [] how = "Option::Some" -> Option_Some(v)
                [] OTHER -> Option_from_value(v)
    /\ optOrigin' = Origin("Some", v)
    /\ optKnown' = "unknown"
    /\ lastOp' = Op(how, "opt", v, "", NoCallable, NoCallable)
    /\ ret' = NoRet
    /\ calls' = <<>>
    /\ UNCHANGED <<res, pc, panicMsg, stderr, resOrigin, resKnown>>

\* opt = None();  opt = Option<T>::None();  opt = Option<T>();
Option_assign_none(how) ==
    /\ pc = "run"
    /\ opt' = CASE how = "None" -> Option_from_monostate(None)
                [] how = "Option::None" -> Option_None
                [] OTHER -> Option_default
    /\ optOrigin' = Origin("None", 0)
    /\ optKnown' = "unknown"
    /\ lastOp' = Op(how, "opt", 0, "", NoCallable, NoCallable)
    /\ ret' = NoRet
    /\ calls' = <<>>
    /\ UNCHANGED <<res, pc, panicMsg, stderr, resOrigin, resKnown>>

\* opt = find_user(users, target);
Option_assign_find_user(target) ==
    /\ pc = "run"
    /\ opt' = find_user(users, target)
    /\ optOrigin' = IF target \in {users[i] : i \in 1..Len(users)}
                    THEN Origin("Some", (CHOOSE i \in 1..Len(users) : users[i] = target) - 1)
                    ELSE Origin("None", 0)
    /\ optKnown' = "unknown"
    /\ lastOp' = Op("find_user", "opt", 0, target, NoCallable, NoCallable)
    /\ ret' = NoRet
    /\ calls' = <<>>
    /\ UNCHANGED <<res, pc, panicMsg, stderr, resOrigin, resKnown>>

\* opt.is_some();  opt.is_none();  if (opt) ...
Option_query(q) ==
    /\ pc = "run"
    /\ LET b == CASE q = "is_some" -> Option_is_some(opt)
                  [] q = "is_none" -> Option_is_none(opt)
                  [] OTHER -> Option_bool(opt)
       IN /\ ret' = RetBool(b)
          /\ optKnown' = IF b = (q # "is_none") THEN "some" ELSE "none"
    /\ lastOp' = Op(q, "opt", 0, "", NoCallable, NoCallable)
    /\ calls' = <<>>
    /\ UNCHANGED <<opt, res, pc, panicMsg, stderr, optOrigin, resOrigin, resKnown>>

\* opt.unwrap();  opt.expect(msg);  *opt;  opt->...
Option_access(a, msg) ==
    /\ pc = "run"
    /\ Complete(CASE a \in {"unwrap", "unwrap const"} -> Option_unwrap(opt)
                  [] a = "expect" -> Option_expect(opt, msg)
                  [] a \in {"operator*", "operator* const"} -> Option_deref(opt)
                  [] OTHER -> Option_arrow(opt))
    /\ lastOp' = Op(a, "opt", 0, IF a = "expect" THEN msg ELSE "", NoCallable, NoCallable)
    /\ UNCHANGED <<opt, res, stderr, optOrigin, resOrigin, optKnown, resKnown>>

\* opt.unwrap_or(def);
Option_call_unwrap_or(def) ==
    /\ pc = "run"
    /\ ret' = RetVal(Option_unwrap_or(opt, def))
    /\ lastOp' = Op("unwrap_or", "opt", def, "", NoCallable, NoCallable)
    /\ calls' = <<>>
    /\ UNCHANGED <<opt, res, pc, panicMsg, stderr, optOrigin, resOrigin,
                   optKnown, resKnown>>

\* opt.match(f_some, f_none);  it compiles only if f_some is invocable with
\* const T& or with no argument, and f_none with no argument.
Option_call_match(f_some, f_none) ==
    /\ pc = "run"
    /\ f_some.unary \/ f_some.nullary
    /\ f_none.nullary
    /\ LET m == Option_match(opt, f_some, f_none)
       IN /\ ret' = RetVal(m.ret)
          /\ calls' = m.calls
    /\ lastOp' = Op("match", "opt", 0, "", f_some, f_none)
    /\ UNCHANGED <<opt, res, pc, panicMsg, stderr, optOrigin, resOrigin,
                   optKnown, resKnown>>

\* --------------------------------------------------- operations on Result
\* res = Ok(v);  (for Result<Unit,E> also res = Ok();)
Result_assign_ok(c, v) ==
    /\ pc = "run"
    /\ res' = [res EXCEPT ![c] = Result_from_OkValue(IF c = "u" THEN Ok_unit ELSE Ok(v))]
    /\ resOrigin' = [resOrigin EXCEPT ![c] = Origin("Ok", v)]
    /\ resKnown' = [resKnown EXCEPT ![c] = "unknown"]
    /\ lastOp' = Op(IF c = "u" THEN "Ok()" ELSE "Ok", c, v, "", NoCallable, NoCallable)
    /\ ret' = NoRet
    /\ calls' = <<>>
    /\ UNCHANGED <<opt, pc, panicMsg, stderr, optOrigin, optKnown>>

\* res = Err(e);
Result_assign_err(c, e) ==
    /\ pc = "run"
    /\ res' = [res EXCEPT ![c] = Result_from_ErrValue(Err(e))]
    /\ resOrigin' = [resOrigin EXCEPT ![c] = Origin("Err", e)]
    /\ resKnown' = [resKnown EXCEPT ![c] = "unknown"]
    /\ lastOp' = Op("Err", c, e, "", NoCallable, NoCallable)
    /\ ret' = NoRet
    /\ calls' = <<>>
    /\ UNCHANGED <<opt, pc, panicMsg, stderr, optOrigin, optKnown>>

\* res = Result<T,E>(v) with v of type T, or with v of type E.
Result_assign_direct(c, v, asT) ==
    /\ pc = "run"
    /\ res' = [res EXCEPT ![c] = IF asT THEN Result_from_T(v) ELSE Result_from_E(v)]
    /\ resOrigin' = [resOrigin EXCEPT ![c] = Origin(IF asT THEN "Ok" ELSE "Err", v)]
    /\ resKnown' = [resKnown EXCEPT ![c] = "unknown"]
    /\ lastOp' = Op(IF asT THEN "Result(T)" ELSE "Result(E)", c, v, "", NoCallable, NoCallable)
    /\ ret' = NoRet
    /\ calls' = <<>>
    /\ UNCHANGED <<opt, pc, panicMsg, stderr, optOrigin, optKnown>>

\* res.is_ok();  res.is_err();  if (res) ...
Result_query(c, q) ==
    /\ pc = "run"
    /\ LET b == CASE q = "is_ok" -> Result_is_ok(res[c])
                  [] q = "is_err" -> Result_is_err(res[c])
                  [] OTHER -> Result_bool(res[c])
       IN /\ ret' = RetBool(b)
          /\ resKnown' = [resKnown EXCEPT ![c] = IF b = (q # "is_err") THEN "ok" ELSE "err"]
    /\ lastOp' = Op(q, c, 0, "", NoCallable, NoCallable)
    /\ calls' = <<>>
    /\ UNCHANGED <<opt, res, pc, panicMsg, stderr, optOrigin, resOrigin, optKnown>>

\* res.unwrap();  res.expect(msg);  res.unwrap_err();  *res;  res->...
Result_access(c, a, msg) ==
    /\ pc = "run"
    /\ Complete(CASE a \in {"unwrap", "unwrap const"} -> Result_unwrap(res[c])
                  [] a = "expect" -> Result_expect(res[c], msg)
                  [] a = "unwrap_err" -> Result_unwrap_err(res[c])
                  [] a \in {"operator*", "operator* const"} -> Result_deref(res[c])
                  [] OTHER -> Result_arrow(res[c]))
    /\ lastOp' = Op(a, c, 0, IF a = "expect" THEN msg ELSE "", NoCallable, NoCallable)
    /\ UNCHANGED <<opt, res, stderr, optOrigin, resOrigin, optKnown, resKnown>>

\* res.match(f_ok, f_err);  it compiles only if both branches are unary.
Result_call_match(c, f_ok, f_err) ==
    /\ pc = "run"
    /\ f_ok.unary
    /\ f_err.unary
    /\ LET m == Result_match(res[c], f_ok, f_err)
       IN /\ ret' = RetVal(m.ret)
          /\ calls' = m.calls
    /\ lastOp' = Op("match", c, 0, "", f_ok, f_err)
    /\ UNCHANGED <<opt, res, pc, panicMsg, stderr, optOrigin, resOrigin,
                   optKnown, resKnown>>

\* ---------------------------------------------------------- specification
Next ==
    \/ \E v \in TVals, how \in {"Some", "Option::Some", "Option(T)"} : Option_assign_some(v, how)
    \/ \E how \in {"None", "Option::None", "Option()"} : Option_assign_none(how)
    \/ \E t \in Targets : Option_assign_find_user(t)
    \/ \E q \in OptionQueries : Option_query(q)
    \/ \E a \in OptionAccessors, m \in ExpectMsgs : Option_access(a, m)
    \/ \E d \in TVals : Option_call_unwrap_or(d)
    \/ \E f1 \in SomeBranches, f2 \in DefaultCaseBranches : Option_call_match(f1, f2)
    \/ \E c \in ResultNames : \E v \in TOf(c) : Result_assign_ok(c, v)
    \/ \E c \in ResultNames, e \in EVals : Result_assign_err(c, e)
    \/ \E c \in ResultNames, asT \in BOOLEAN :
          \E v \in (IF asT THEN TOf(c) ELSE EVals) : Result_assign_direct(c, v, asT)
    \/ \E c \in ResultNames, q \in ResultQueries : Result_query(c, q)
    \/ \E c \in ResultNames, a \in ResultAccessors, m \in ExpectMsgs : Result_access(c, a, m)
    \/ \E c \in ResultNames : \E f1, f2 \in CaseBranches : Result_call_match(c, f1, f2)
    \/ \E m \in PanicMsgs : panic(m)
    \/ rs_panic_write
    \/ rs_panic_abort

Spec == Init /\ [][Next]_vars

\* ------------------------------------------------------------- properties
\* s contains the text t
Contains(s, t) ==
    \E i \in 1..(Len(s) - Len(t) + 1) : SubSeq(s, i, i + Len(t) - 1) = t

OptionUnwraps == OptionAccessors \ {"expect"}
OnOption(ops) == lastOp.tgt = "opt" /\ lastOp.op \in ops
OnResult(ops) == lastOp.tgt \in ResultNames /\ lastOp.op \in ops
Panicked == pc # "run"

\* C1: an Option built from a value (Some, Option<T>::Some, Option(T)) reports
\* is_some() and not is_none(); one built by None(), Option<T>::None() or
\* Option() reports is_none() and not is_some(); the queries called on it
\* return exactly that, and every Option is in exactly one of the two states.
C1_SomeNoneQueries ==
    /\ Option_is_some(opt) # Option_is_none(opt)
    /\ optOrigin.via = "Some" => Option_is_some(opt) /\ ~Option_is_none(opt)
    /\ optOrigin.via = "None" => Option_is_none(opt) /\ ~Option_is_some(opt)
    /\ OnOption({"is_some", "operator bool"}) => ret = RetBool(optOrigin.via = "Some")
    /\ OnOption({"is_none"}) => ret = RetBool(optOrigin.via = "None")

C1_Witness ==
    /\ OnOption({"is_none"})
    /\ optOrigin = Origin("Some", 2)
    /\ ret = RetBool(FALSE)

\* C2: unwrap (const or not), operator* and operator-> called on an Option
\* built from v return v and do not panic.
C2_UnwrapRoundTrip ==
    (OnOption(OptionUnwraps) /\ optOrigin.via = "Some")
        => (~Panicked /\ ret = RetVal(optOrigin.arg))

C2_Witness ==
    /\ OnOption({"operator-> const"})
    /\ optOrigin = Origin("Some", 1)
    /\ ret = RetVal(1)

\* C3 as stated: unwrap on an empty Option terminates the process after a
\* diagnostic that reads "called unwrap on an absent value".
C3_AbsentMessage ==
    (OnOption(OptionUnwraps) /\ optOrigin.via = "None" /\ pc = "terminated")
        => (stderr # <<>> /\ Contains(stderr[Len(stderr)], "called unwrap on an absent value"))

\* C3 amended: unwrap on an empty Option enters rs_panic with the message
\* "called 'Option::unwrap()' on a 'None' value", returns nothing to the
\* caller, and the line written before the process ends is that message
\* after the prefix "[Panic] "; the line does not contain "absent".
C3_NoneMessage ==
    (OnOption(OptionUnwraps) /\ optOrigin.via = "None")
        => /\ Panicked
           /\ ret = NoRet
           /\ panicMsg = "called 'Option::unwrap()' on a 'None' value"
           /\ pc = "terminated" =>
                /\ stderr = <<"[Panic] called 'Option::unwrap()' on a 'None' value">>
                /\ ~Contains(stderr[1], "absent")

C3_Witness ==
    /\ OnOption({"unwrap"})
    /\ optOrigin.via = "None"
    /\ pc = "terminated"
    /\ Len(stderr) = 1

\* C4: unwrap_or(d) returns v on an Option built from v and d on an empty
\* one, never panics, and leaves the Option as it was.
C4_UnwrapOr ==
    /\ [](OnOption({"unwrap_or"}) =>
            /\ ~Panicked
            /\ ret = RetVal(IF optOrigin.via = "Some" THEN optOrigin.arg ELSE lastOp.arg))
    /\ [][lastOp'.op = "unwrap_or" => (opt' = opt /\ pc' = "run" /\ stderr' = stderr)]_vars

C4_Witness ==
    /\ OnOption({"unwrap_or"})
    /\ optOrigin.via = "None"
    /\ lastOp.arg = 2
    /\ ret = RetVal(2)

\* C5: a Result converted from Ok(v) is ok, not err, and unwraps to v; one
\* converted from Err(e) is err, not ok, and unwrap_err gives e; Ok() gives a
\* Result that is ok and holds Unit.  T and E share values here, so the state
\* is decided by the builder, not by the payload.
C5_BuilderConversion ==
    /\ lastOp.op \in {"Ok", "Ok()"} =>
          /\ Result_is_ok(res[lastOp.tgt]) /\ ~Result_is_err(res[lastOp.tgt])
          /\ Result_unwrap(res[lastOp.tgt]) = Returns(lastOp.arg)
    /\ lastOp.op = "Ok()" => Unit_eq(res[lastOp.tgt].val, UnitValue) /\ res[lastOp.tgt].val \in UnitVals
    /\ lastOp.op = "Err" =>
          /\ Result_is_err(res[lastOp.tgt]) /\ ~Result_is_ok(res[lastOp.tgt])
          /\ Result_unwrap_err(res[lastOp.tgt]) = Returns(lastOp.arg)
    /\ \A c \in ResultNames :
          /\ Result_is_ok(res[c]) = (resOrigin[c].via = "Ok")
          /\ Result_is_err(res[c]) = (resOrigin[c].via = "Err")
          /\ (lastOp.tgt = c /\ lastOp.op \in {"is_ok", "operator bool"})
                => ret = RetBool(resOrigin[c].via = "Ok")
          /\ (lastOp.tgt = c /\ lastOp.op = "is_err")
                => ret = RetBool(resOrigin[c].via = "Err")

C5_Witness ==
    /\ lastOp.op = "Err"
    /\ lastOp.tgt = "r"
    /\ lastOp.arg = 1
    /\ \E v \in TVals : v = lastOp.arg
    /\ Result_is_err(res["r"])

\* C6: on a Result built as Err, unwrap, expect, operator* and operator->
\* panic and return nothing; on one built as Ok, unwrap_err panics and returns
\* nothing; unwrap on Ok and unwrap_err on Err return the payload.
C6_ResultAccessors ==
    OnResult(ResultAccessors) =>
        LET o == resOrigin[lastOp.tgt]
            wanted == IF lastOp.op = "unwrap_err" THEN "Err" ELSE "Ok"
        IN IF o.via = wanted
           THEN ~Panicked /\ ret = RetVal(o.arg)
           ELSE Panicked /\ ret = NoRet

C6_Witness ==
    /\ OnResult({"unwrap_err"})
    /\ resOrigin[lastOp.tgt].via = "Ok"
    /\ pc = "terminated"
    /\ ret = NoRet

\* C7: match invokes exactly one branch, once: on an Option holding v, f_some
\* (with v if it accepts an argument, with none otherwise); on an empty
\* Option, f_none with no argument; on a Result, f_ok with the success
\* payload or f_err with the failure payload.
C7_MatchExclusive ==
    lastOp.op = "match" =>
        /\ Len(calls) = 1
        /\ lastOp.tgt = "opt" =>
              calls[1] = IF optOrigin.via = "Some"
                         THEN [slot |-> "f_some",
                               args |-> IF lastOp.f1.unary THEN <<optOrigin.arg>> ELSE <<>>]
                         ELSE [slot |-> "f_none", args |-> <<>>]
        /\ lastOp.tgt \in ResultNames =>
              calls[1] = [slot |-> IF resOrigin[lastOp.tgt].via = "Ok" THEN "f_ok" ELSE "f_err",
                          args |-> <<resOrigin[lastOp.tgt].arg>>]

C7_Witness ==
    /\ lastOp.op = "match"
    /\ lastOp.tgt = "opt"
    /\ optOrigin.via = "Some"
    /\ ~lastOp.f1.unary
    /\ calls = << [slot |-> "f_some", args |-> <<>>] >>

\* C8: match returns what the branch it invoked returned.
C8_MatchPassthrough ==
    (lastOp.op = "match" /\ calls # <<>>) =>
        LET f == IF calls[1].slot \in {"f_some", "f_ok"} THEN lastOp.f1 ELSE lastOp.f2
        IN ret = RetVal(Apply(f, calls[1].args))

C8_Witness ==
    /\ lastOp.op = "match"
    /\ lastOp.tgt = "r"
    /\ calls # <<>>
    /\ calls[1].slot = "f_err"
    /\ lastOp.f1.k # lastOp.f2.k
    /\ ret = RetVal(Apply(lastOp.f2, calls[1].args))

\* C9: a panic writes its message to std::cerr before the process ends, the
\* process ends only after the write, and from the moment rs_panic is entered
\* nothing is returned to the caller and no other operation runs.
C9_PanicOrder ==
    /\ [](pc \in {"abort", "terminated"} =>
            (stderr # <<>> /\ Contains(stderr[Len(stderr)], panicMsg)))
    /\ [](pc = "rs_panic" => stderr = <<>>)
    /\ [](Panicked => (ret = NoRet /\ calls = <<>>))
    /\ [][pc' = "terminated" => pc = "abort"]_vars
    /\ [][Panicked => UNCHANGED <<opt, res, ret, calls, lastOp, panicMsg>>]_vars
    /\ [][pc = "terminated" => UNCHANGED vars]_vars

C9_Witness ==
    /\ pc = "terminated"
    /\ lastOp.op = "panic"
    /\ stderr = <<"[Panic] explicit panic">>

\* C10: a panic that is not an explicit call of panic() comes from a panicking
\* accessor called on a container whose payload was not live and that no state
\* query had shown to hold that payload; match, unwrap_or, the queries and the
\* constructors never panic.
C10_PanicOnlyOnMisuse ==
    (Panicked /\ lastOp.op # "panic") =>
        \/ /\ OnOption(OptionAccessors)
           /\ Option_is_none(opt)
           /\ optKnown # "some"
        \/ /\ OnResult(ResultAccessors \ {"unwrap_err"})
           /\ Result_is_err(res[lastOp.tgt])
           /\ resKnown[lastOp.tgt] # "ok"
        \/ /\ OnResult({"unwrap_err"})
           /\ Result_is_ok(res[lastOp.tgt])
           /\ resKnown[lastOp.tgt] # "err"

C10_Witness ==
    /\ OnResult({"operator*"})
    /\ resKnown[lastOp.tgt] = "ok"
    /\ pc = "run"
    /\ ret.kind = "val"

====
